---- MODULE Spec2Model ----
(***************************************************************************)
(* A model of text_correction_benchmarks/cli/evaluate.py: evaluate(), the  *)
(* metric loop over sorted(metric_names), and run(), the reporting loop    *)
(* over the prediction files.                                               *)
(*                                                                         *)
(* A text is a sequence of one-character strings, a file is a sequence of  *)
(* texts (load_text_file), a path is a sequence of path components.        *)
(* A float is the exact rational <<numerator, denominator>> it stands for. *)
(***************************************************************************)
EXTENDS Integers, Sequences, FiniteSets, TLC

VARIABLES fs, dirs, call, epc, groundtruths, predictions, corrupted,
          lowercase_lines, names, outputs, ret,
          args, rpc, task_name, metric_names, pred_files, idx,
          evaluations, printed, rerror

evars == <<call, epc, groundtruths, predictions, corrupted,
           lowercase_lines, names, outputs, ret>>
rvars == <<args, rpc, task_name, metric_names, pred_files, idx,
           evaluations, printed, rerror>>
vars == <<fs, dirs, call, epc, groundtruths, predictions, corrupted,
          lowercase_lines, names, outputs, ret,
          args, rpc, task_name, metric_names, pred_files, idx,
          evaluations, printed, rerror>>

\* ------------------------------------------------------------- bounds
MaxLines == 2
MaxMetrics == 3
MaxFiles == 3

\* ------------------------------------------------------------ helpers
Range(s) == {s[i] : i \in 1..Len(s)}
SeqsUpTo(S, n) == UNION {[1..k -> S] : k \in 0..n}
Min(S) == CHOOSE x \in S : \A y \in S : x <= y
Perms(S) == {s \in [1..Cardinality(S) -> S] : Range(s) = S}
Concat(ss) ==
  LET F[k \in 0..Len(ss)] == IF k = 0 THEN <<>> ELSE F[k - 1] \o ss[k]
  IN F[Len(ss)]

\* Python's sorted(): a stable insertion of each element before the first
\* element it must strictly precede; `before` is the set of the pairs <<x, y>>
\* with x < y in the order sorted by.
InsertStable(s, x, before) ==
  LET later == {i \in 1..Len(s) : <<x, s[i]>> \in before}
      p == IF later = {} THEN Len(s) + 1 ELSE Min(later)
  IN SubSeq(s, 1, p - 1) \o <<x>> \o SubSeq(s, p, Len(s))
SortedBy(s, before) ==
  LET F[k \in 0..Len(s)] ==
        IF k = 0 THEN <<>> ELSE InsertStable(F[k - 1], s[k], before)
  IN F[Len(s)]

\* ------------------------------------------------------------- floats
RatLess(a, b) == a[1] * b[2] < b[1] * a[2]
RatAdd(a, b) == <<a[1] * b[2] + b[1] * a[2], a[2] * b[2]>>
RatSum(s) ==
  LET F[k \in 0..Len(s)] == IF k = 0 THEN <<0, 1>> ELSE RatAdd(F[k - 1], s[k])
  IN F[Len(s)]
\* f"{scale * v:.{digits}f}": the value scaled, rounded (half to even) to
\* `digits` decimals; kept as <<digits, the rounded value in 10^-digits>>.
Pow10(k) == IF k = 0 THEN 1 ELSE IF k = 2 THEN 100 ELSE 10000
Format(v, scale, digits) ==
  LET n == v[1] * scale * Pow10(digits)
      q == n \div v[2]
      r2 == 2 * (n % v[2])
      up == r2 > v[2] \/ (r2 = v[2] /\ q % 2 = 1)
  IN <<digits, IF up THEN q + 1 ELSE q>>

\* ------------------------------------------------------------ strings
Str(s) == [i \in 1..Len(s) |-> s[i]]
LowerChar(c) == CASE c = "A" -> "a" [] c = "B" -> "b" [] OTHER -> c
Lower(s) == [i \in 1..Len(s) |-> LowerChar(s[i])]
IsSpace(c) == c = " "
\* str.split(): the maximal runs of non-whitespace characters
Split(s) ==
  LET starts == {i \in 1..Len(s) :
                   ~IsSpace(s[i]) /\ (i = 1 \/ IsSpace(s[i - 1]))}
      EndOf(i) == Min({j \in i..Len(s) : j = Len(s) \/ IsSpace(s[j + 1])})
      F[k \in 0..Len(s)] ==
        IF k = 0 THEN <<>>
        ELSE IF k \in starts THEN Append(F[k - 1], SubSeq(s, k, EndOf(k)))
        ELSE F[k - 1]
  IN F[Len(s)]
IsDigit(c) == c \in {"0", "1"}
DigitVal(c) == IF c = "1" THEN 1 ELSE 0
\* int(s): the decimal value, or a ValueError for anything but digits
IsIntLiteral(s) == Len(s) > 0 /\ \A i \in 1..Len(s) : IsDigit(s[i])
IntOf(s) ==
  LET F[k \in 0..Len(s)] == IF k = 0 THEN 0 ELSE 10 * F[k - 1] + DigitVal(s[k])
  IN F[Len(s)]
ToBool(n) == n # 0

\* Code points of the characters of the metric names, for Python's str <.
Ord(c) ==
  CASE c = "1" -> 49 [] c = "_" -> 95 [] c = "a" -> 97 [] c = "b" -> 98
    [] c = "c" -> 99 [] c = "d" -> 100 [] c = "e" -> 101 [] c = "f" -> 102
    [] c = "g" -> 103 [] c = "i" -> 105 [] c = "m" -> 109 [] c = "n" -> 110
    [] c = "o" -> 111 [] c = "q" -> 113 [] c = "r" -> 114 [] c = "s" -> 115
    [] c = "u" -> 117 [] c = "w" -> 119 [] c = "x" -> 120 [] c = "y" -> 121
    [] c = "z" -> 122
Chars(name) ==
  CASE name = "bin_f1" -> <<"b", "i", "n", "_", "f", "1">>
    [] name = "word_acc" -> <<"w", "o", "r", "d", "_", "a", "c", "c">>
    [] name = "seq_acc" -> <<"s", "e", "q", "_", "a", "c", "c">>
    [] name = "mned" -> <<"m", "n", "e", "d">>
    [] name = "sec_f1" -> <<"s", "e", "c", "_", "f", "1">>
    [] name = "wsc_f1" -> <<"w", "s", "c", "_", "f", "1">>
    [] name = "acc" -> <<"a", "c", "c">>
    [] name = "rouge" -> <<"r", "o", "u", "g", "e">>
    [] name = "xyz" -> <<"x", "y", "z">>
\* a < b for str: lexicographic on code points
StrLess(a, b) ==
  LET x == Chars(a)
      y == Chars(b)
      m == IF Len(x) < Len(y) THEN Len(x) ELSE Len(y)
  IN \/ \E k \in 1..m : /\ \A j \in 1..(k - 1) : x[j] = y[j]
                        /\ Ord(x[k]) < Ord(y[k])
     \/ Len(x) < Len(y) /\ \A j \in 1..m : x[j] = y[j]

\* ------------------------------------------- text_correction_utils.metrics
\* The metrics library is not part of the repository; its functions follow
\* the definitions of the metric table (one operator per function).
Exc(type, msg) == [type |-> type, msg |-> msg]
NoExc == Exc("None", <<>>)
Ok(v) == [exc |-> NoExc, value |-> v]
Raise(e) == [exc |-> e, value |-> <<0, 1>>]

Count(S) == Cardinality(S)
\* metrics.accuracy: the fraction of positions at which the two lists agree
accuracy(preds, labels) ==
  IF Len(preds) # Len(labels)
  THEN Raise(Exc("AssertionError", <<"expected the same number of items">>))
  ELSE IF Len(preds) = 0
  THEN Raise(Exc("ZeroDivisionError", <<"division by zero">>))
  ELSE Ok(<<Count({i \in 1..Len(preds) : preds[i] = labels[i]}), Len(preds)>>)

\* metrics.binary_f1: F1 of the positive class, 0 on a zero denominator
binary_f1(preds, labels) ==
  IF Len(preds) # Len(labels)
  THEN Raise(Exc("AssertionError", <<"expected the same number of items">>))
  ELSE LET I == 1..Len(preds)
           tp == Count({i \in I : preds[i] /\ labels[i]})
           fp == Count({i \in I : preds[i] /\ ~labels[i]})
           fn == Count({i \in I : ~preds[i] /\ labels[i]})
       IN Ok(IF tp = 0 THEN <<0, 1>> ELSE <<2 * tp, 2 * tp + fp + fn>>)

\* the character-level edit distance (Levenshtein)
EditDistance(a, b) ==
  LET D[i \in 0..Len(a), j \in 0..Len(b)] ==
        IF i = 0 THEN j
        ELSE IF j = 0 THEN i
        ELSE Min({D[i - 1, j] + 1, D[i, j - 1] + 1,
                  D[i - 1, j - 1] + (IF a[i] = b[j] THEN 0 ELSE 1)})
  IN D[Len(a), Len(b)]
\* one line's normalized edit distance: 0 for two empty texts, the maximal
\* penalty for a non-empty prediction of an empty ground truth
NormalizedEditDistance(p, g) ==
  IF Len(g) = 0 THEN (IF Len(p) = 0 THEN <<0, 1>> ELSE <<1, 1>>)
  ELSE <<EditDistance(p, g), Len(g)>>
\* metrics.mean_normalized_sequence_edit_distance
mean_normalized_sequence_edit_distance(preds, labels) ==
  IF Len(preds) # Len(labels)
  THEN Raise(Exc("AssertionError", <<"expected the same number of items">>))
  ELSE IF Len(preds) = 0
  THEN Raise(Exc("ZeroDivisionError", <<"division by zero">>))
  ELSE LET s == RatSum([i \in 1..Len(preds) |->
                          NormalizedEditDistance(preds[i], labels[i])])
       IN Ok(<<s[1], s[2] * Len(preds)>>)

\* metrics.spelling_correction_f1 and metrics.whitespace_correction_f1 align
\* the texts by an algorithm the repository does not contain: the value they
\* return is any of these.
F1Values == {<<0, 1>>, <<1, 1>>}

\* ---------------------------------------------------------------- evaluate
SupportedMetrics == {"bin_f1", "word_acc", "seq_acc", "mned", "sec_f1", "wsc_f1"}

MetricResult(name, formatted, value, larger) ==
  [name |-> name, formatted |-> formatted, value |-> value, larger |-> larger]
Results(rs) == [exc |-> NoExc, results |-> rs]
Raised(e) == [exc |-> e, results |-> <<>>]

\* the policy argument `lowercase`: a bool, a str (the flag file), or else
LcBool(b) == [kind |-> "bool", flag |-> b, path |-> <<>>]
LcStr(p) == [kind |-> "str", flag |-> FALSE, path |-> p]
LcOther == [kind |-> "other", flag |-> FALSE, path |-> <<>>]

ValueErrorInt(s) ==
  Exc("ValueError", <<"invalid literal for int() with base 10: '">> \o Str(s) \o <<"'">>)

\* lines 72-84: the per-line flags, [bool(int(x)) for x in ...]
LowercaseLines(lowercase, files, npred) ==
  IF lowercase.kind = "str"
  THEN LET lines == files[lowercase.path]
           bad == {i \in 1..Len(lines) : ~IsIntLiteral(lines[i])}
       IN IF bad # {} THEN Raise(ValueErrorInt(lines[Min(bad)]))
          ELSE Ok([i \in 1..Len(lines) |-> ToBool(IntOf(lines[i]))])
  ELSE IF lowercase.kind = "bool"
  THEN Ok([i \in 1..npred |-> ToBool(IF lowercase.flag THEN 1 ELSE 0)])
  ELSE Raise(Exc("TypeError",
                 <<"expected lowercase to be a string or a bool, but got ",
                   lowercase.kind>>))

\* lines 86-87: the assertion's error
LengthAssertion ==
  Exc("AssertionError",
      <<"expected the same number of lines in the groundtruth, prediction, corrupted, and lowercase files">>)

\* Faulty variant: the corrupted file and the flags left out of the comparison
SameLengthsPredGt(p, g, c, l) == Len(p) = Len(g)
\* line 86: len(predictions) == len(groundtruths) == len(corrupted) == len(lowercase_lines)
SameLengths(p, g, c, l) ==
  Len(p) = Len(g) /\ Len(g) = Len(c) /\ Len(c) = Len(l)

\* Faulty variant: every prediction lowercased, whatever its flag
LowercaseAll(preds, flags) ==
  [i \in 1..Min({Len(preds), Len(flags)}) |-> Lower(preds[i])]
\* Faulty variant: the flag inverted
LowercaseInverted(preds, flags) ==
  [i \in 1..Min({Len(preds), Len(flags)}) |->
     IF flags[i] THEN preds[i] ELSE Lower(preds[i])]
\* lines 89-92: zip stops at the shorter of the two lists
ApplyLowercase(preds, flags) ==
  [i \in 1..Min({Len(preds), Len(flags)}) |->
     IF flags[i] THEN Lower(preds[i]) ELSE preds[i]]

\* Faulty variant: the set iterated as it comes
UnsortedNames(order) == order
\* line 96: sorted(metric_names), the set iterated in the order `order`
SortedNames(order) ==
  SortedBy(order, {xy \in Range(order) \X Range(order) : StrLess(xy[1], xy[2])})

\* [x for line in lines for x in line.split()]
WordTokens(lines) == Concat([i \in 1..Len(lines) |-> Split(lines[i])])

\* lines 97-111
BinF1(preds, gts) ==
  LET ps == WordTokens(preds)
      ls == WordTokens(gts)
      badp == {i \in 1..Len(ps) : ~IsIntLiteral(ps[i])}
      badl == {i \in 1..Len(ls) : ~IsIntLiteral(ls[i])}
  IN IF badp # {} THEN Raised(ValueErrorInt(ps[Min(badp)]))
     ELSE IF badl # {} THEN Raised(ValueErrorInt(ls[Min(badl)]))
     ELSE LET r == binary_f1([i \in 1..Len(ps) |-> ToBool(IntOf(ps[i]))],
                             [i \in 1..Len(ls) |-> ToBool(IntOf(ls[i]))])
          IN IF r.exc # NoExc THEN Raised(r.exc)
             ELSE Results(<<MetricResult("F1", Format(r.value, 100, 2), r.value, TRUE)>>)

\* Faulty variant: the tokens paired line by line, an error when a line's counts differ
WordAccPerLine(preds, gts) ==
  IF \E i \in 1..Len(preds) : Len(Split(preds[i])) # Len(Split(gts[i]))
  THEN Raised(Exc("AssertionError", <<"expected the same number of items">>))
  ELSE LET r == accuracy(Concat([i \in 1..Len(preds) |-> Split(preds[i])]),
                         Concat([i \in 1..Len(gts) |-> Split(gts[i])]))
       IN IF r.exc # NoExc THEN Raised(r.exc)
          ELSE Results(<<MetricResult("Word accuracy", Format(r.value, 100, 2),
                                      r.value, TRUE)>>)
\* lines 113-128
WordAcc(preds, gts) ==
  LET r == accuracy(WordTokens(preds), WordTokens(gts))
  IN IF r.exc # NoExc THEN Raised(r.exc)
     ELSE Results(<<MetricResult("Word accuracy", Format(r.value, 100, 2),
                                 r.value, TRUE)>>)

\* lines 130-134
SeqAcc(preds, gts) ==
  LET r == accuracy(preds, gts)
  IN IF r.exc # NoExc THEN Raised(r.exc)
     ELSE Results(<<MetricResult("Sequence accuracy", Format(r.value, 100, 2),
                                 r.value, TRUE)>>)

\* lines 136-140
Mned(preds, gts) ==
  LET r == mean_normalized_sequence_edit_distance(preds, gts)
  IN IF r.exc # NoExc THEN Raised(r.exc)
     ELSE Results(<<MetricResult("MNED", Format(r.value, 1, 4), r.value, FALSE)>>)

\* lines 142-162: for seq_avg in [False, True]
F1Pair(micro, seqavg) ==
  Results(<<MetricResult("Micro F1", Format(micro, 100, 2), micro, TRUE),
            MetricResult("Sequence-averaged F1", Format(seqavg, 100, 2),
                         seqavg, TRUE)>>)

\* Faulty variant: an unrecognized name skipped
SkipUnknownMetric(name) == Results(<<>>)
\* lines 164-165
UnknownMetric(name) == Raised(Exc("RuntimeError", <<"unknown metric ", name>>))

\* one iteration of the loop of lines 96-165
Metric(name, preds, gts, micro, seqavg) ==
  CASE name = "bin_f1" -> BinF1(preds, gts)
    [] name = "word_acc" -> WordAcc(preds, gts)
    [] name = "seq_acc" -> SeqAcc(preds, gts)
    [] name = "mned" -> Mned(preds, gts)
    [] name = "sec_f1" -> F1Pair(micro, seqavg)
    [] name = "wsc_f1" -> F1Pair(micro, seqavg)
    [] OTHER -> UnknownMetric(name)

NoCall ==
  [corrupted_file |-> <<>>, groundtruth_file |-> <<>>, predicted_file |-> <<>>,
   metric_names |-> {}, lowercase |-> LcOther]
NoRet == [kind |-> "none", value |-> <<>>, exc |-> NoExc]
Returned(v) == [kind |-> "return", value |-> v, exc |-> NoExc]
Thrown(e) == [kind |-> "raise", value |-> <<>>, exc |-> e]

\* lines 69-87: load the files, resolve the flags, assert the line counts
EvalLoad ==
  /\ epc = "call"
  /\ LET g == fs[call.groundtruth_file]
         p == fs[call.predicted_file]
         c == fs[call.corrupted_file]
         l == LowercaseLines(call.lowercase, fs, Len(p))
     IN /\ groundtruths' = g
        /\ predictions' = p
        /\ corrupted' = c
        /\ IF l.exc # NoExc
           THEN /\ lowercase_lines' = <<>>
                /\ epc' = "raised"
                /\ ret' = Thrown(l.exc)
           ELSE /\ lowercase_lines' = l.value
                /\ IF SameLengths(p, g, c, l.value)
                   THEN epc' = "lower" /\ ret' = ret
                   ELSE /\ epc' = "raised"
                        /\ ret' = Thrown(LengthAssertion)
  /\ UNCHANGED <<fs, dirs, call, names, outputs>>
  /\ UNCHANGED rvars

\* lines 89-96: lowercase the flagged predictions, start the metric loop
EvalLower ==
  /\ epc = "lower"
  /\ predictions' = ApplyLowercase(predictions, lowercase_lines)
  /\ outputs' = <<>>
  /\ \E order \in Perms(call.metric_names) : names' = SortedNames(order)
  /\ epc' = "loop"
  /\ UNCHANGED <<fs, dirs, call, groundtruths, corrupted, lowercase_lines, ret>>
  /\ UNCHANGED rvars

\* lines 96-165: one metric
EvalMetric ==
  /\ epc = "loop"
  /\ names # <<>>
  /\ \E micro \in F1Values, seqavg \in F1Values :
       LET o == Metric(Head(names), predictions, groundtruths, micro, seqavg)
       IN IF o.exc = NoExc
          THEN /\ outputs' = outputs \o o.results
               /\ names' = Tail(names)
               /\ UNCHANGED <<epc, ret>>
          ELSE /\ epc' = "raised"
               /\ ret' = Thrown(o.exc)
               /\ UNCHANGED <<outputs, names>>
  /\ UNCHANGED <<fs, dirs, call, groundtruths, predictions, corrupted, lowercase_lines>>
  /\ UNCHANGED rvars

\* line 167
EvalReturn ==
  /\ epc = "loop"
  /\ names = <<>>
  /\ epc' = "returned"
  /\ ret' = Returned(outputs)
  /\ UNCHANGED <<fs, dirs, call, groundtruths, predictions, corrupted,
                 lowercase_lines, names, outputs>>
  /\ UNCHANGED rvars

\* ------------------------------------------------- evaluate() called alone
\* Python's None and a value that is not None
None == <<>>
Some(v) == <<v>>
\* the Namespace of parse_args (lines 10-59)
Namespace(benchmark, files, dir, sort, lowercase, lowercase_file) ==
  [benchmark |-> benchmark, files |-> files, dir |-> dir, sort |-> sort,
   lowercase |-> lowercase, lowercase_file |-> lowercase_file]
NoArgs == Namespace(<<>>, None, None, None, FALSE, None)
RunIdle ==
  /\ args = NoArgs
  /\ rpc = "none"
  /\ task_name = ""
  /\ metric_names = {}
  /\ pred_files = <<>>
  /\ idx = 0
  /\ evaluations = <<>>
  /\ printed = None
  /\ rerror = NoExc
EvalEntry(c) ==
  /\ call = c
  /\ epc = "call"
  /\ groundtruths = <<>>
  /\ predictions = <<>>
  /\ corrupted = <<>>
  /\ lowercase_lines = <<>>
  /\ names = <<>>
  /\ outputs = <<>>
  /\ ret = NoRet

CorruptFile == <<"corrupt.txt">>
CorrectFile == <<"correct.txt">>
PredFile == <<"pred.txt">>
FlagFile == <<"lower.txt">>
Files(c, g, p, l) ==
  (CorruptFile :> c) @@ (CorrectFile :> g) @@ (PredFile :> p) @@ (FlagFile :> l)
CallOf(ms, lc) ==
  [corrupted_file |-> CorruptFile, groundtruth_file |-> CorrectFile,
   predicted_file |-> PredFile, metric_names |-> ms, lowercase |-> lc]

\* texts with capitals and with different token counts
TextLines == {<<"A", " ", "b">>, <<"a">>}
GtLines == TextLines \cup {<<"a", " ", "b">>}
CorruptLines == {<<"A", "b">>}
FlagLines == {<<"0">>, <<"1">>}
EvalMetricSets ==
  {{"mned", "seq_acc", "word_acc"}, {"mned", "sec_f1"}, {"seq_acc", "wsc_f1"},
   {"bin_f1", "word_acc"}}

InitEval ==
  /\ \E c \in SeqsUpTo(CorruptLines, MaxLines),
        g \in SeqsUpTo(GtLines, MaxLines),
        p \in SeqsUpTo(TextLines, MaxLines) :
       \/ \E b \in BOOLEAN, ms \in EvalMetricSets :
            /\ fs = Files(c, g, p, <<>>)
            /\ EvalEntry(CallOf(ms, LcBool(b)))
       \/ \E l \in SeqsUpTo(FlagLines, MaxLines), ms \in EvalMetricSets :
            /\ fs = Files(c, g, p, l)
            /\ EvalEntry(CallOf(ms, LcStr(FlagFile)))
       \/ \E ms \in EvalMetricSets :
            /\ fs = Files(c, g, p, <<>>)
            /\ EvalEntry(CallOf(ms, LcOther))
  /\ dirs = <<>>
  /\ RunIdle
NextEval == EvalLoad \/ EvalLower \/ EvalMetric \/ EvalReturn
SpecEval == InitEval /\ [][NextEval]_vars

\* every set of at most MaxMetrics names, on 0/1 label files of equal length
AllNames == SupportedMetrics \cup {"acc", "rouge", "xyz"}
BinLines == {<<"1">>, <<"0", " ", "1">>}
InitMetrics ==
  /\ \E n \in 1..MaxLines :
       \E g \in [1..n -> BinLines], p \in [1..n -> BinLines],
          ms \in {s \in SUBSET AllNames : Cardinality(s) <= MaxMetrics} :
         /\ fs = Files([i \in 1..n |-> <<"1">>], g, p, <<>>)
         /\ EvalEntry(CallOf(ms, LcBool(FALSE)))
  /\ dirs = <<>>
  /\ RunIdle
SpecMetrics == InitMetrics /\ [][NextEval]_vars

\* ----------------------------------------------------------------- paths
\* A path is its sequence of separators "/" and name parts.
RStrip(p, c) ==
  LET keep == {i \in 1..Len(p) : p[i] # c}
  IN IF keep = {} THEN <<>>
     ELSE SubSeq(p, 1, CHOOSE i \in keep : \A j \in keep : j <= i)
\* str.split(sep): the parts between the separators, empty parts kept
SplitOn(p, c) ==
  LET F[k \in 0..Len(p)] ==
        IF k = 0 THEN <<<<>>>>
        ELSE IF p[k] = c THEN Append(F[k - 1], <<>>)
        ELSE [F[k - 1] EXCEPT ![Len(F[k - 1])] = Append(@, p[k])]
  IN F[Len(p)]
\* os.path.abspath of an absolute path: no trailing separator but the root's
AbsPath(p) == IF RStrip(p, "/") = <<>> THEN <<"/">> ELSE RStrip(p, "/")
\* os.path.join(a, b) for a relative b
Join(a, b) ==
  IF a = <<>> THEN b
  ELSE IF a[Len(a)] = "/" THEN a \o b
  ELSE a \o <<"/">> \o b
\* os.path.split(p)[-1]
BaseName(p) ==
  LET parts == SplitOn(p, "/") IN parts[Len(parts)]
\* os.path.splitext(name)[0]
Extensions == {".txt"}
SplitExtRoot(name) ==
  IF Len(name) > 1 /\ name[Len(name)] \in Extensions
  THEN SubSeq(name, 1, Len(name) - 1)
  ELSE name

\* ---------------------------------------------------------------------- run
\* lines 180-196: the benchmark type's task name and metric names
KnownTypes == {<<"seds">>, <<"sedw">>, <<"sec">>, <<"wsc">>}
TaskName(t) ==
  CASE t = <<"seds">> -> "Sequence-level spelling error detection"
    [] t = <<"sedw">> -> "Word-level spelling error detection"
    [] t = <<"sec">> -> "Spelling error correction"
    [] t = <<"wsc">> -> "Whitespace correction"
MetricNames(t) ==
  CASE t = <<"seds">> -> {"bin_f1", "seq_acc"}
    [] t = <<"sedw">> -> {"bin_f1", "word_acc"}
    [] t = <<"sec">> -> {"sec_f1", "mned"}
    [] t = <<"wsc">> -> {"wsc_f1", "seq_acc"}

BenchmarkSplit(a) == SplitOn(RStrip(AbsPath(a.benchmark), "/"), "/")
BenchmarkType(a) == BenchmarkSplit(a)[Len(BenchmarkSplit(a)) - 1]
BenchmarkName(a) == BenchmarkSplit(a)[Len(BenchmarkSplit(a))]
PredictionDir(a) == Join(a.benchmark, <<"predictions">>)

\* lines 198-212: the prediction files, `listing` the order of os.listdir
Predictions(a, d, listing) ==
  IF a.files # None THEN a.files[1]
  ELSE [i \in 1..Len(listing) |-> Join(d, listing[i])]

\* line 227: args.lowercase and args.benchmark_type == "sec"
LowercaseArg(a) ==
  IF ~a.lowercase THEN Ok(a.lowercase)
  ELSE IF "benchmark_type" \in DOMAIN a
  THEN Ok(a["benchmark_type"] = <<"sec">>)
  ELSE Raise(Exc("AttributeError",
                 <<"'Namespace' object has no attribute 'benchmark_type'">>))

\* Faulty variant: the exception passed on as it is
Reraise(e) == e
\* lines 231-234
WrapError(e) ==
  Exc("RuntimeError",
      <<"encountered exception during evaluation: '">> \o e.msg \o <<"'.\n">>)

\* Faulty variant: always ascending
SortAscending(evals, sort_idx, reverse) ==
  SortedBy(evals, {xy \in Range(evals) \X Range(evals) :
                     RatLess(xy[1][2][sort_idx].value, xy[2][2][sort_idx].value)})
\* lines 243-245: sorted(evaluations, key=..., reverse=...)
SortKey(e, sort_idx) == e[2][sort_idx].value
SortEvaluations(evals, sort_idx, reverse) ==
  SortedBy(evals,
           {xy \in Range(evals) \X Range(evals) :
              IF reverse
              THEN RatLess(SortKey(xy[2], sort_idx), SortKey(xy[1], sort_idx))
              ELSE RatLess(SortKey(xy[1], sort_idx), SortKey(xy[2], sort_idx))})

\* lines 246-257: what the table renderer is given
Table(a, task, evals, headers) ==
  [headers |-> << <<task>> \o [i \in 1..Len(headers) |-> ""],
                  <<BenchmarkName(a)>> \o headers >>,
   data |-> [k \in 1..Len(evals) |->
               <<evals[k][1]>> \o
               [i \in 1..Len(evals[k][2]) |-> evals[k][2][i].formatted]],
   alignments |-> <<"left">> \o [i \in 1..Len(headers) |-> "right"]]

\* lines 171-214
RunStart ==
  /\ rpc = "start"
  /\ IF Len(BenchmarkSplit(args)) < 2
     THEN /\ rpc' = "raised"
          /\ rerror' = Exc("RuntimeError",
               <<"expected the benchmark directory to have at least one parent directory specifying the task">>)
          /\ UNCHANGED <<task_name, metric_names, pred_files, idx>>
     ELSE IF BenchmarkType(args) \notin KnownTypes
     THEN /\ rpc' = "raised"
          /\ rerror' = Exc("RuntimeError", <<"unknonw benchmark type ">> \o BenchmarkType(args))
          /\ UNCHANGED <<task_name, metric_names, pred_files, idx>>
     ELSE /\ task_name' = TaskName(BenchmarkType(args))
          /\ metric_names' = MetricNames(BenchmarkType(args))
          /\ IF args.files = None /\ args.dir = None
                /\ PredictionDir(args) \notin DOMAIN dirs
             THEN /\ rpc' = "raised"
                  /\ rerror' = Exc("AssertionError",
                       <<"expecting a subdirectory 'predictions' in ">> \o args.benchmark)
                  /\ UNCHANGED <<pred_files, idx>>
             ELSE LET d == IF args.dir # None THEN args.dir[1] ELSE PredictionDir(args)
                      entries == IF args.files # None THEN {} ELSE dirs[d]
                  IN \E listing \in Perms(entries) :
                       LET ps == Predictions(args, d, listing)
                       IN /\ pred_files' = ps
                          /\ IF Len(ps) > 0
                             THEN rpc' = "loop" /\ idx' = 1 /\ rerror' = rerror
                             ELSE /\ rpc' = "raised"
                                  /\ idx' = idx
                                  /\ rerror' = Exc("AssertionError",
                                       <<"need to have at least one prediction file">>)
  /\ UNCHANGED <<fs, dirs, args, evaluations, printed>>
  /\ UNCHANGED evars

\* lines 220-228: the next prediction file's call of evaluate
RunCall ==
  /\ rpc = "loop"
  /\ idx <= Len(pred_files)
  /\ LET lc == LowercaseArg(args)
     IN IF lc.exc # NoExc
        THEN /\ rpc' = "except"
             /\ ret' = Thrown(lc.exc)
             /\ UNCHANGED <<call, epc, groundtruths, predictions, corrupted,
                            lowercase_lines, names, outputs>>
        ELSE /\ rpc' = "eval"
             /\ call' = [corrupted_file |-> Join(args.benchmark, <<"corrupt", ".txt">>),
                         groundtruth_file |-> Join(args.benchmark, <<"correct", ".txt">>),
                         predicted_file |-> pred_files[idx],
                         metric_names |-> metric_names,
                         lowercase |-> LcBool(lc.value)]
             /\ epc' = "call"
             /\ groundtruths' = <<>>
             /\ predictions' = <<>>
             /\ corrupted' = <<>>
             /\ lowercase_lines' = <<>>
             /\ names' = <<>>
             /\ outputs' = <<>>
             /\ ret' = NoRet
  /\ UNCHANGED <<fs, dirs, args, task_name, metric_names, pred_files, idx,
                 evaluations, printed, rerror>>

\* lines 229-230
RunCollect ==
  /\ rpc = "eval"
  /\ epc = "returned"
  /\ evaluations' = Append(evaluations,
                           <<SplitExtRoot(BaseName(pred_files[idx])), ret.value>>)
  /\ idx' = idx + 1
  /\ rpc' = "loop"
  /\ epc' = "idle"
  /\ UNCHANGED <<fs, dirs, call, groundtruths, predictions, corrupted,
                 lowercase_lines, names, outputs, ret>>
  /\ UNCHANGED <<args, task_name, metric_names, pred_files, printed, rerror>>

\* Faulty variant: the evaluations collected so far are printed before the error
RunExceptPartialReport ==
  /\ \/ rpc = "eval" /\ epc = "raised"
     \/ rpc = "except"
  /\ rerror' = WrapError(ret.exc)
  /\ printed' = Some(Table(args, task_name, evaluations, <<>>))
  /\ rpc' = "raised"
  /\ epc' = "idle"
  /\ UNCHANGED <<fs, dirs, call, groundtruths, predictions, corrupted,
                 lowercase_lines, names, outputs, ret>>
  /\ UNCHANGED <<args, task_name, metric_names, pred_files, idx, evaluations>>

\* lines 231-234: any exception of the loop ends the run
RunExcept ==
  /\ \/ rpc = "eval" /\ epc = "raised"
     \/ rpc = "except"
  /\ rerror' = WrapError(ret.exc)
  /\ rpc' = "raised"
  /\ epc' = "idle"
  /\ UNCHANGED <<fs, dirs, call, groundtruths, predictions, corrupted,
                 lowercase_lines, names, outputs, ret>>
  /\ UNCHANGED <<args, task_name, metric_names, pred_files, idx, evaluations,
                 printed>>

\* lines 236-258: sort the evaluations, print the table
RunReport ==
  /\ rpc = "loop"
  /\ idx > Len(pred_files)
  /\ LET first == evaluations[1][2]
         metric_headers == [i \in 1..Len(first) |-> first[i].name]
     IN IF args.sort = None
        THEN /\ printed' = Some(Table(args, task_name, evaluations, metric_headers))
             /\ rpc' = "done"
             /\ UNCHANGED <<evaluations, rerror>>
        ELSE IF args.sort[1] \notin Range(metric_headers)
        THEN /\ rpc' = "raised"
             /\ rerror' = Exc("AssertionError",
                              <<"sort must be a metric name, but got '", args.sort[1], "'">>)
             /\ UNCHANGED <<evaluations, printed>>
        ELSE LET sort_idx == Min({i \in 1..Len(metric_headers) :
                                    metric_headers[i] = args.sort[1]})
                 larger_is_better == [i \in 1..Len(first) |-> first[i].larger]
                 sorted == SortEvaluations(evaluations, sort_idx,
                                           larger_is_better[sort_idx])
             IN /\ evaluations' = sorted
                /\ printed' = Some(Table(args, task_name, sorted, metric_headers))
                /\ rpc' = "done"
                /\ UNCHANGED rerror
  /\ UNCHANGED <<fs, dirs, args, task_name, metric_names, pred_files, idx>>
  /\ UNCHANGED evars

\* ------------------------------------------------------ the benchmarks
\* One benchmark per type: its ground truth, its corrupted input, and the
\* prediction files m1, m2, ...: the ground truth itself, a file one line
\* short, and two files with errors.
Gold(t) ==
  CASE t = <<"seds">> -> << <<"1">>, <<"0">> >>
    [] t = <<"sedw">> -> << <<"1", " ", "0">>, <<"0">> >>
    [] OTHER -> << <<"A", " ", "b">>, <<"a">> >>
Noisy(t) ==
  CASE t = <<"seds">> -> << <<"1">>, <<"1">> >>
    [] t = <<"sedw">> -> << <<"1", " ", "1">>, <<"0">> >>
    [] OTHER -> << <<"a", " ", "b">>, <<"a">> >>
Wrong(t) ==
  CASE t = <<"seds">> -> << <<"0">>, <<"1">> >>
    [] t = <<"sedw">> -> << <<"0", " ", "1">>, <<"1">> >>
    [] OTHER -> << <<"b">>, <<"A">> >>
Corrupt(t) ==
  CASE t = <<"seds">> -> << <<"A", "b">>, <<"a">> >>
    [] t = <<"sedw">> -> << <<"A", " ", "b">>, <<"a">> >>
    [] OTHER -> << <<"A", "b">>, <<"a">> >>
PredContent(t, i) ==
  CASE i % 4 = 1 -> Noisy(t)
    [] i % 4 = 2 -> SubSeq(Gold(t), 1, 1)
    [] i % 4 = 3 -> Gold(t)
    [] OTHER -> Wrong(t)
Stem(i) ==
  CASE i = 1 -> "m1" [] i = 2 -> "m2" [] i = 3 -> "m3" [] i = 4 -> "m4"
    [] OTHER -> "m5"
PredNames == {<<Stem(i), ".txt">> : i \in 1..MaxFiles}
IndexOf(name) == CHOOSE i \in 1..MaxFiles : name = <<Stem(i), ".txt">>
OutDir == <<"/", "out">>
LowerFlags == <<"/", "lower", ".txt">>
Benchmarks ==
  {<<"/">>, <<"/", "gec", "/", "b">>, <<"/", "seds", "/", "b">>,
   <<"/", "sedw", "/", "b">>, <<"/", "sec", "/", "b">>,
   <<"/", "wsc", "/", "b", "/">>}
TypeOf(b) ==
  LET parts == SplitOn(RStrip(b, "/"), "/")
  IN IF Len(parts) < 2 THEN <<>> ELSE parts[Len(parts) - 1]
BenchmarkFiles(b) ==
  LET t == TypeOf(b)
  IN (Join(b, <<"corrupt", ".txt">>) :> Corrupt(t))
     @@ (Join(b, <<"correct", ".txt">>) :> Gold(t))
     @@ (LowerFlags :> << <<"1">>, <<"1">> >>)
     @@ [p \in {Join(d, n) : d \in {OutDir, Join(b, <<"predictions">>)},
                             n \in PredNames}
           |-> PredContent(t, IndexOf(BaseName(p)))]

DisplayNames ==
  {"F1", "Word accuracy", "Sequence accuracy", "MNED", "Micro F1",
   "Sequence-averaged F1"}
FileLists ==
  {s \in UNION {[1..k -> {Join(OutDir, n) : n \in PredNames}] : k \in 1..MaxFiles} :
     \A i, j \in 1..Len(s) : i # j => s[i] # s[j]}

InitRun ==
  /\ \E b \in Benchmarks,
        sort \in {None} \cup {Some(h) : h \in DisplayNames},
        lowercase \in BOOLEAN,
        lowercase_file \in {None, Some(LowerFlags)} :
       /\ fs = BenchmarkFiles(b)
       /\ \/ \E files \in FileLists :
               /\ args = Namespace(b, Some(files), None, sort, lowercase, lowercase_file)
               /\ dirs = (OutDir :> PredNames)
          \/ \E entries \in {{}, PredNames} :
               /\ args = Namespace(b, None, Some(OutDir), sort, lowercase, lowercase_file)
               /\ dirs = (OutDir :> entries)
          \/ /\ args = Namespace(b, None, None, sort, lowercase, lowercase_file)
             /\ \/ dirs = (OutDir :> PredNames)
                \/ dirs = (OutDir :> PredNames) @@ (Join(b, <<"predictions">>) :> PredNames)
  /\ rpc = "start"
  /\ task_name = ""
  /\ metric_names = {}
  /\ pred_files = <<>>
  /\ idx = 0
  /\ evaluations = <<>>
  /\ printed = None
  /\ rerror = NoExc
  /\ call = NoCall
  /\ epc = "idle"
  /\ groundtruths = <<>>
  /\ predictions = <<>>
  /\ corrupted = <<>>
  /\ lowercase_lines = <<>>
  /\ names = <<>>
  /\ outputs = <<>>
  /\ ret = NoRet
NextRun ==
  \/ RunStart \/ RunCall \/ RunCollect \/ RunExcept \/ RunReport
  \/ EvalLoad \/ EvalLower \/ EvalMetric \/ EvalReturn
SpecRun == InitRun /\ [][NextRun]_vars

\* ------------------------------------------------------------ properties
\* the inputs of the evaluate() call in progress
InPred == fs[call.predicted_file]
InGt == fs[call.groundtruth_file]
InCorrupted == fs[call.corrupted_file]
ResultNames(rs) == [i \in 1..Len(rs) |-> rs[i].name]
ValueOf(rs, name) == rs[CHOOSE i \in 1..Len(rs) : rs[i].name = name].value
HasResult(rs, name) == \E i \in 1..Len(rs) : rs[i].name = name

\* the alphabetical position of each metric name
AlphabeticalRank(n) ==
  CASE n = "acc" -> 1 [] n = "bin_f1" -> 2 [] n = "mned" -> 3 [] n = "rouge" -> 4
    [] n = "sec_f1" -> 5 [] n = "seq_acc" -> 6 [] n = "word_acc" -> 7
    [] n = "wsc_f1" -> 8 [] n = "xyz" -> 9
Ascending(ms) ==
  CHOOSE s \in Perms(ms) :
    \A i, j \in 1..Len(s) : i < j => AlphabeticalRank(s[i]) < AlphabeticalRank(s[j])
ExpectedNames(n) ==
  CASE n = "bin_f1" -> <<"F1">>
    [] n = "mned" -> <<"MNED">>
    [] n = "seq_acc" -> <<"Sequence accuracy">>
    [] n = "word_acc" -> <<"Word accuracy">>
    [] n \in {"sec_f1", "wsc_f1"} -> <<"Micro F1", "Sequence-averaged F1">>

\* C1: whenever evaluate returns, its results are those of the requested
\* names in ascending alphabetical order of the metric name, one result per
\* name and the two results "Micro F1", "Sequence-averaged F1" for sec_f1 and
\* for wsc_f1, whatever the order in which the set was iterated.
C1_ResultsInNameOrder ==
  epc = "returned" =>
    LET asc == Ascending(call.metric_names)
    IN ResultNames(ret.value) =
         Concat([i \in 1..Len(asc) |-> ExpectedNames(asc[i])])
C1_Witness ==
  /\ epc = "returned"
  /\ {"sec_f1", "wsc_f1", "mned"} \subseteq call.metric_names
  /\ Len(ret.value) = 5

\* C2: with a name outside the supported set among the requested names,
\* evaluate never returns: the unknown name stays ahead in the loop until it
\* raises, and no result list, not even a partial one, is returned.
C2_UnknownMetricIsAnError ==
  (call.metric_names \ SupportedMetrics # {}) =>
    /\ epc # "returned"
    /\ ret.kind # "return"
    /\ ret.value = <<>>
    /\ epc = "loop" => \E i \in 1..Len(names) : names[i] \notin SupportedMetrics
C2_Witness ==
  /\ epc = "raised"
  /\ ret.exc = Exc("RuntimeError", <<"unknown metric ", "rouge">>)
  /\ Len(outputs) >= 2
  /\ ret.value = <<>>

\* the line counts of the files evaluate reads
LineCountsEqual ==
  /\ Len(InPred) = Len(InGt)
  /\ Len(InPred) = Len(InCorrupted)
  /\ call.lowercase.kind = "str" => Len(fs[call.lowercase.path]) = Len(InPred)

\* C3: with line counts that are not all equal evaluate gets no further than
\* its loading step: it computes no metric and returns nothing; with equal
\* line counts the line-count assertion is never the error.
C3_LengthMismatchFails ==
  /\ (epc # "idle" /\ ~LineCountsEqual) =>
       /\ epc \in {"call", "raised"}
       /\ outputs = <<>>
       /\ ret.kind # "return"
  /\ (epc = "raised" /\ LineCountsEqual) => ret.exc # LengthAssertion
  /\ (epc = "raised" /\ ~LineCountsEqual /\ call.lowercase.kind # "other") =>
       ret.exc = LengthAssertion
C3_Witness ==
  /\ epc = "raised"
  /\ ret.exc = LengthAssertion
  /\ Len(InPred) = Len(InGt)
  /\ Len(InCorrupted) # Len(InGt)
  /\ outputs = <<>>

\* the flag of line i as the policy gives it
FlagOf(i) ==
  IF call.lowercase.kind = "str" THEN fs[call.lowercase.path][i] # <<"0">>
  ELSE call.lowercase.flag
Lowered(i) == IF FlagOf(i) THEN Lower(InPred[i]) ELSE InPred[i]
HasCapital(s) == \E k \in 1..Len(s) : s[k] \in {"A", "B"}

\* C4: in the metric loop and at the return, prediction line i is the input
\* line lowercased if its flag is set and the input line itself otherwise,
\* and the corrupted and ground-truth lines are the input files' lines.
C4_LowercaseOnlyPredictions ==
  epc \in {"loop", "returned"} =>
    /\ Len(predictions) = Len(InPred)
    /\ \A i \in 1..Len(InPred) : predictions[i] = Lowered(i)
    /\ groundtruths = InGt
    /\ corrupted = InCorrupted
C4_Witness ==
  /\ epc = "loop"
  /\ call.lowercase.kind = "str"
  /\ \E i, j \in 1..Len(InPred) :
       /\ FlagOf(i) /\ HasCapital(InPred[i]) /\ ~HasCapital(predictions[i])
       /\ ~FlagOf(j) /\ HasCapital(predictions[j])
  /\ \E i \in 1..Len(InGt) : HasCapital(groundtruths[i])
  /\ \E i \in 1..Len(InCorrupted) : HasCapital(corrupted[i])

IsOne(v) == v[1] = v[2]
IsZero(v) == v[1] = 0
Perfect(rs) ==
  /\ HasResult(rs, "Sequence accuracy") => IsOne(ValueOf(rs, "Sequence accuracy"))
  /\ HasResult(rs, "Word accuracy") => IsOne(ValueOf(rs, "Word accuracy"))
  /\ HasResult(rs, "MNED") => IsZero(ValueOf(rs, "MNED"))
AccuracyMetrics == {"mned", "seq_acc", "word_acc"}

\* C5 as stated: a prediction file equal to the ground-truth file gives
\* seq_acc = 1, word_acc = 1 and mned = 0 under every lowercase policy.
C5_PerfectUnderEveryPolicy ==
  (epc = "returned" /\ InPred = InGt) => Perfect(ret.value)
\* C5, amended: the prediction lines as the policy leaves them (lowercased
\* where flagged) equal to the ground-truth lines, on a corpus of at least one
\* line and one token, give seq_acc = 1, word_acc = 1 and mned = 0, and
\* evaluate returns them.
C5_PerfectAfterLowercasing ==
  (/\ epc \in {"returned", "raised"}
   /\ LineCountsEqual
   /\ call.lowercase.kind # "other"
   /\ Len(InPred) > 0
   /\ \E i \in 1..Len(InGt) : Split(InGt[i]) # <<>>
   /\ \A i \in 1..Len(InPred) : Lowered(i) = InGt[i]
   /\ call.metric_names = AccuracyMetrics) =>
    /\ epc = "returned"
    /\ ResultNames(ret.value) = <<"MNED", "Sequence accuracy", "Word accuracy">>
    /\ Perfect(ret.value)
C5_Witness ==
  /\ epc = "returned"
  /\ call.metric_names = AccuracyMetrics
  /\ Perfect(ret.value)
  /\ Len(InPred) = MaxLines
  /\ \A i \in 1..Len(InPred) : Lowered(i) = InGt[i]
  /\ \E i \in 1..Len(InPred) : FlagOf(i)
  /\ \E i \in 1..Len(InPred) : HasCapital(InGt[i])

\* the tokens of a corpus, counted through its lines
TokenCount(lines) ==
  LET F[k \in 0..Len(lines)] ==
        IF k = 0 THEN 0 ELSE F[k - 1] + Len(Split(lines[k]))
  IN F[Len(lines)]
TokenLine(lines, k) ==
  CHOOSE i \in 1..Len(lines) :
    TokenCount(SubSeq(lines, 1, i - 1)) < k /\ k <= TokenCount(SubSeq(lines, 1, i))
CorpusToken(lines, k) ==
  LET i == TokenLine(lines, k)
  IN Split(lines[i])[k - TokenCount(SubSeq(lines, 1, i - 1))]
LoweredPred == [i \in 1..Len(InPred) |-> Lowered(i)]
PerLineCountsEqual ==
  \A i \in 1..Len(InPred) : Len(Split(InPred[i])) = Len(Split(InGt[i]))
AtWordAcc == epc = "raised" /\ names # <<>> /\ Head(names) = "word_acc"

\* C6 as stated: a word accuracy is produced only if every line has as many
\* predicted as ground-truth tokens, and tokens are compared within a line.
C6_WordAccNeedsEqualLineCounts ==
  HasResult(outputs, "Word accuracy") =>
    /\ PerLineCountsEqual
    /\ \A k \in 1..TokenCount(InPred) : TokenLine(InPred, k) = TokenLine(InGt, k)
\* C6, amended: word_acc pairs the k-th predicted token of the corpus with the
\* k-th ground-truth token of the corpus: it is produced exactly when the two
\* corpora have the same non-zero number of tokens, also when single lines
\* differ in their counts, and it is the fraction of the positions k at which
\* the two tokens agree.
C6_WordAccPairsCorpusTokens ==
  /\ HasResult(outputs, "Word accuracy") =>
       /\ TokenCount(InPred) = TokenCount(InGt)
       /\ TokenCount(InGt) > 0
       /\ ValueOf(outputs, "Word accuracy") =
            <<Cardinality({k \in 1..TokenCount(InGt) :
                 CorpusToken(LoweredPred, k) = CorpusToken(InGt, k)}),
              TokenCount(InGt)>>
  /\ AtWordAcc => (TokenCount(InPred) # TokenCount(InGt) \/ TokenCount(InGt) = 0)
C6_Witness ==
  /\ HasResult(outputs, "Word accuracy")
  /\ ~PerLineCountsEqual
  /\ TokenCount(InPred) = TokenCount(InGt)
  /\ \E k \in 1..TokenCount(InPred) : TokenLine(InPred, k) # TokenLine(InGt, k)

\* the rows of the printed table
Rows == printed[1].data
RowNames == [k \in 1..Len(Rows) |-> Rows[k][1]]
GivenNames == [i \in 1..Len(pred_files) |-> SplitExtRoot(BaseName(pred_files[i]))]
Headers == Tail(printed[1].headers[2])
HigherIsBetter(h) == h # "MNED"
SortColumn == CHOOSE i \in 1..Len(Headers) : Headers[i] = args.sort[1]
\* the raw value of the sort column for the prediction file of row k
RawOfRow(k) ==
  LET e == CHOOSE e \in Range(evaluations) : e[1] = RowNames[k]
  IN e[2][SortColumn].value

\* C7: the printed rows are the prediction files; with a sort key they are in
\* non-increasing order of the key's raw value when higher is better and in
\* non-decreasing order for MNED; without one they are in the given order.
C7_RowsSortedByKey ==
  rpc = "done" =>
    /\ Range(RowNames) = Range(GivenNames)
    /\ Len(RowNames) = Len(GivenNames)
    /\ args.sort = None => RowNames = GivenNames
    /\ args.sort # None =>
         \A k \in 1..(Len(Rows) - 1) :
           IF HigherIsBetter(args.sort[1])
           THEN ~RatLess(RawOfRow(k), RawOfRow(k + 1))
           ELSE ~RatLess(RawOfRow(k + 1), RawOfRow(k))
C7_Witness ==
  /\ rpc = "done"
  /\ args.sort = Some("MNED")
  /\ Len(Rows) >= 2
  /\ RowNames # GivenNames
  /\ RatLess(RawOfRow(1), RawOfRow(2))
C7_WitnessDescending ==
  /\ rpc = "done"
  /\ args.sort = Some("Sequence accuracy")
  /\ RowNames # GivenNames
  /\ RatLess(RawOfRow(2), RawOfRow(1))

\* C8: a table is printed only by a run in which every prediction file was
\* evaluated without error, one row per file; a run that failed has printed
\* no table, whatever was evaluated before the failing file.
C8_NoPartialReport ==
  /\ printed # None =>
       /\ rpc = "done"
       /\ rerror = NoExc
       /\ Len(Rows) = Len(pred_files)
       /\ Len(evaluations) = Len(pred_files)
  /\ rpc = "raised" => printed = None
  /\ rerror # NoExc => printed = None
C8_Witness ==
  /\ rpc = "raised"
  /\ ret.exc = LengthAssertion
  /\ Len(evaluations) >= 1
  /\ printed = None

\* the run failed in its loop over the prediction files, at file idx
LoopFailed == rpc = "raised" /\ ret.kind = "raise"
\* the failure was raised by evaluate itself, called for file idx
EvaluateRaised == LoopFailed /\ call.predicted_file = pred_files[idx]
Mentions(msg, path) == \E i \in 1..Len(msg) : msg[i] \in Range(BaseName(path)) \ {".txt"}

\* C9 as stated: the error of a failed evaluation names the prediction file.
C9_ErrorNamesPredictionFile ==
  EvaluateRaised => Mentions(rerror.msg, pred_files[idx])
\* C9, amended: the error of a failed evaluation is a RuntimeError whose
\* message quotes the message of the underlying error, at every position of
\* the failing file; it names no prediction file.
C9_ErrorQuotesUnderlyingError ==
  LoopFailed =>
    /\ rerror.type = "RuntimeError"
    /\ rerror.msg = <<"encountered exception during evaluation: '">>
                      \o ret.exc.msg \o <<"'.\n">>
    /\ \A i \in 1..Len(pred_files) : ~Mentions(rerror.msg, pred_files[i])
C9_Witness ==
  /\ EvaluateRaised
  /\ ret.exc = LengthAssertion
  /\ idx = MaxFiles
  /\ Len(evaluations) = MaxFiles - 1

\* the prediction lines the command line asks to be evaluated
RequestedLine(p, i) ==
  IF TypeOf(args.benchmark) # <<"sec">> THEN p[i]
  ELSE IF args.lowercase THEN Lower(p[i])
  ELSE IF args.lowercase_file # None /\ fs[args.lowercase_file[1]][i] # <<"0">>
  THEN Lower(p[i])
  ELSE p[i]

\* C10: the policy of the command line reaches evaluate: on a sec benchmark
\* the predictions are lowercased as --lowercase or --lowercase-file ask, on
\* the other benchmarks they are left as they are, and on a sec benchmark
\* building the call of evaluate never fails.
C10_LowercasePolicyRespected ==
  /\ TypeOf(args.benchmark) = <<"sec">> => rpc # "except"
  /\ (rpc = "eval" /\ epc \in {"loop", "returned"}) =>
       \A i \in 1..Len(InPred) : predictions[i] = RequestedLine(InPred, i)

====
